---- MODULE Spec2Model ----
(***************************************************************************)
(* Model of src/model2.py: a T-junction traffic simulation.  Each Car has *)
(* point-mass kinematics, stops once at its stop line, asks can_proceed   *)
(* for right of way and possibly turns; Simulation spawns cars and moves  *)
(* them one after another, in place, once per frame.                      *)
(*                                                                         *)
(* Numbers.  The program computes in binary floating point.  The model    *)
(* computes in fixed point: a speed is an integer number of 1/SpeedScale  *)
(* m/s and a coordinate an integer number of 1/PosScale pixels.  With     *)
(* SpeedScale = 600 and PosScale = 11250 every quantity of the program is *)
(* exact except the quotient speed^2 / (2*distance) of update_speed,      *)
(* which is rounded to the nearest unit (1/600 m/s per frame).  A car     *)
(* alone brakes, stops, restarts and turns on the same frames (241, 369,  *)
(* 428, 540) as under CPython floats.                                     *)
(*                                                                         *)
(* Cosmetic state (color, angle) and all drawing are left out.            *)
(***************************************************************************)
EXTENDS Integers, Sequences, FiniteSets, TLC

----------------------------------------------------------------------------
(* Program constants, src/model2.py lines 11-42 *)

WIDTH == 800
HEIGHT == 800
FPS == 30
ACCELERATION == 2
MAX_DECELERATION == 2
STOP_TIME == 60
ROAD_WIDTH == 100
LANE_WIDTH == ROAD_WIDTH \div 2
CENTER_X == WIDTH \div 2
CENTER_Y == HEIGHT \div 2
CAR_WIDTH == 25
CAR_HEIGHT == 15

(* Fixed-point scales: units per m/s and units per pixel.  PosScale is    *)
(* chosen so that speed * PIXELS_PER_METER / FPS pixels (line 275) is     *)
(* exactly `speed' units: PIXELS_PER_METER = 800/500 = 8/5, and           *)
(* (8/5) * PosScale / (FPS * SpeedScale) = 1.                             *)
SpeedScale == 20 * FPS
PosScale == (5 * FPS * SpeedScale) \div 8

Px(n) == n * PosScale

(* MAX_SPEEDS = [20], in speed units *)
MAX_SPEEDS == {20 * SpeedScale}

(* 80 m, 5 m and 50 m in pixels (PIXELS_PER_METER = 8/5), in position units *)
STOP_SLOWDOWN_DISTANCE == Px(80 * 8) \div 5
MIN_DISTANCE == Px(5 * 8) \div 5
SPAWN_CLEARANCE == Px(50 * 8) \div 5
CROSSROAD_RANGE == Px(50 * 8) \div 5

(* Enum members.  Direction and Destination are two different Enum        *)
(* classes: a member of one never equals a member of the other, even when *)
(* both carry the value "left".                                           *)
Direction_LEFT == "Direction.LEFT"
Direction_RIGHT == "Direction.RIGHT"
Direction_TOP == "Direction.TOP"
Direction_BOTTOM == "Direction.BOTTOM"
Direction == {Direction_LEFT, Direction_RIGHT, Direction_TOP, Direction_BOTTOM}

Destination_LEFT == "Destination.LEFT"
Destination_RIGHT == "Destination.RIGHT"
Destination_BOTTOM == "Destination.BOTTOM"
Destination == {Destination_LEFT, Destination_RIGHT, Destination_BOTTOM}

STOP_POSITIONS(d) ==
    CASE d = Direction_RIGHT  -> Px(CENTER_X - ROAD_WIDTH \div 2 - 20)
      [] d = Direction_LEFT   -> Px(CENTER_X + ROAD_WIDTH \div 2 + 20)
      [] d = Direction_BOTTOM -> Px(CENTER_Y - ROAD_WIDTH \div 2 - 20)
      [] d = Direction_TOP    -> Px(CENTER_Y + ROAD_WIDTH \div 2 + 20)

----------------------------------------------------------------------------
(* Arithmetic helpers (Python builtins) *)

Min(a, b) == IF a <= b THEN a ELSE b
Max(a, b) == IF a >= b THEN a ELSE b
Abs(a) == IF a >= 0 THEN a ELSE 0 - a

(* a / b rounded to the nearest integer, for a >= 0 and b > 0 *)
RoundDiv(a, b) == (2 * a + b) \div (2 * b)

----------------------------------------------------------------------------
(* class Car *)

(* assign_destination: the candidates random.choice draws from *)
assign_destination(direction) ==
    CASE direction = Direction_RIGHT -> {Destination_RIGHT, Destination_BOTTOM}
      [] direction = Direction_LEFT  -> {Destination_LEFT, Destination_BOTTOM}
      [] direction = Direction_TOP   -> {Destination_LEFT, Destination_RIGHT}
      [] OTHER -> {"None"}

(* set_initial_position: <<x, y, dx, dy>> (only RIGHT, LEFT and BOTTOM    *)
(* have a branch)                                                         *)
set_initial_position(direction) ==
    CASE direction = Direction_RIGHT ->
           <<Px(0 - CAR_WIDTH), Px(CENTER_Y + LANE_WIDTH \div 2), 1, 0>>
      [] direction = Direction_LEFT ->
           <<Px(WIDTH + CAR_WIDTH), Px(CENTER_Y - LANE_WIDTH \div 2), -1, 0>>
      [] direction = Direction_BOTTOM ->
           <<Px(CENTER_X - LANE_WIDTH \div 2), Px(HEIGHT + CAR_HEIGHT), 0, -1>>

(* Car.__init__ with the three random draws made explicit *)
NewCar(id, direction, destination, max_speed) ==
    LET p == set_initial_position(direction)
    IN [id |-> id,
        direction |-> direction,
        destination |-> destination,
        max_speed |-> max_speed,
        speed |-> max_speed,
        stop_timer |-> 0,
        has_stopped_at_crossroad |-> FALSE,
        has_turned |-> FALSE,
        x |-> p[1], y |-> p[2], dx |-> p[3], dy |-> p[4]]

(* the filter of can_proceed: within range of the centre on either axis *)
InCrossroad(car) ==
    \/ Abs(car.x - Px(CENTER_X)) <= CROSSROAD_RANGE
    \/ Abs(car.y - Px(CENTER_Y)) <= CROSSROAD_RANGE

(* can_proceed without its last branch (destination RIGHT) *)
can_proceed_nolast(self, other_cars) ==
    LET cars_in_crossroad ==
            {i \in 1..Len(other_cars) : InCrossroad(other_cars[i])}
        AnyCar(P(_)) == \E i \in cars_in_crossroad : P(other_cars[i])
        BottomRight(car) == /\ car.direction = Direction_BOTTOM
                            /\ car.destination = Destination_RIGHT
                            /\ car.y >= Px(CENTER_Y)
        LeftLeft(car) == /\ car.direction = Direction_LEFT
                         /\ car.destination = Direction_LEFT
                         /\ car.x <= Px(CENTER_X)
        RightBottom(car) == /\ car.direction = Direction_RIGHT
                            /\ car.destination = Destination_BOTTOM
                            /\ car.x >= Px(CENTER_X)
    IN  IF self.destination = self.direction /\ self.direction = Direction_RIGHT
          THEN TRUE
        ELSE IF self.destination = self.direction /\ self.direction = Direction_LEFT
          THEN ~AnyCar(BottomRight)
        ELSE IF self.destination = Destination_BOTTOM /\ self.direction = Direction_LEFT
          THEN TRUE
        ELSE IF self.destination = Destination_BOTTOM /\ self.direction = Direction_RIGHT
          THEN ~AnyCar(LeftLeft)
        ELSE IF self.destination = Destination_LEFT
          THEN ~AnyCar(RightBottom)
        ELSE FALSE

(* can_proceed whose line 149 compares car.destination with               *)
(* Destination.LEFT                                                       *)
can_proceed_destleft(self, other_cars) ==
    LET cars_in_crossroad ==
            {i \in 1..Len(other_cars) : InCrossroad(other_cars[i])}
        AnyCar(P(_)) == \E i \in cars_in_crossroad : P(other_cars[i])
        BottomRight(car) == /\ car.direction = Direction_BOTTOM
                            /\ car.destination = Destination_RIGHT
                            /\ car.y >= Px(CENTER_Y)
        LeftLeft(car) == /\ car.direction = Direction_LEFT
                         /\ car.destination = Destination_LEFT
                         /\ car.x <= Px(CENTER_X)
        RightBottom(car) == /\ car.direction = Direction_RIGHT
                            /\ car.destination = Destination_BOTTOM
                            /\ car.x >= Px(CENTER_X)
    IN  IF self.destination = self.direction /\ self.direction = Direction_RIGHT
          THEN TRUE
        ELSE IF self.destination = self.direction /\ self.direction = Direction_LEFT
          THEN ~AnyCar(BottomRight)
        ELSE IF self.destination = Destination_BOTTOM /\ self.direction = Direction_LEFT
          THEN TRUE
        ELSE IF self.destination = Destination_BOTTOM /\ self.direction = Direction_RIGHT
          THEN ~AnyCar(LeftLeft)
        ELSE IF self.destination = Destination_LEFT
          THEN ~AnyCar(RightBottom)
        ELSE IF self.destination = Destination_RIGHT
          THEN TRUE
        ELSE FALSE

(* can_proceed: other_cars is a sequence of cars.  The comparisons are    *)
(* the program's: destination == direction compares a Destination with a  *)
(* Direction, and line 149 compares car.destination with Direction.LEFT.  *)
can_proceed(self, other_cars) ==
    LET cars_in_crossroad ==
            {i \in 1..Len(other_cars) : InCrossroad(other_cars[i])}
        AnyCar(P(_)) == \E i \in cars_in_crossroad : P(other_cars[i])
        BottomRight(car) == /\ car.direction = Direction_BOTTOM
                            /\ car.destination = Destination_RIGHT
                            /\ car.y >= Px(CENTER_Y)
        LeftLeft(car) == /\ car.direction = Direction_LEFT
                         /\ car.destination = Direction_LEFT
                         /\ car.x <= Px(CENTER_X)
        RightBottom(car) == /\ car.direction = Direction_RIGHT
                            /\ car.destination = Destination_BOTTOM
                            /\ car.x >= Px(CENTER_X)
    IN  IF self.destination = self.direction /\ self.direction = Direction_RIGHT
          THEN TRUE
        ELSE IF self.destination = self.direction /\ self.direction = Direction_LEFT
          THEN ~AnyCar(BottomRight)
        ELSE IF self.destination = Destination_BOTTOM /\ self.direction = Direction_LEFT
          THEN TRUE
        ELSE IF self.destination = Destination_BOTTOM /\ self.direction = Direction_RIGHT
          THEN ~AnyCar(LeftLeft)
        ELSE IF self.destination = Destination_LEFT
          THEN ~AnyCar(RightBottom)
        ELSE IF self.destination = Destination_RIGHT
          THEN TRUE
        ELSE FALSE

(* turn that forgets to assign the new direction on the BOTTOM branch *)
turn_keeps_direction(self) ==
    LET t == [self EXCEPT !.has_turned = TRUE]
    IN  IF self.destination = Destination_BOTTOM
          THEN [t EXCEPT !.dx = 0, !.dy = 1,
                         !.x = Px(CENTER_X - LANE_WIDTH \div 2)]
        ELSE IF self.destination = Destination_LEFT
          THEN [t EXCEPT !.direction = Direction_LEFT, !.dx = -1, !.dy = 0,
                         !.y = Px(CENTER_Y - LANE_WIDTH \div 2)]
        ELSE IF self.destination = Destination_RIGHT
          THEN [t EXCEPT !.direction = Direction_RIGHT, !.dx = 1, !.dy = 0,
                         !.y = Px(CENTER_Y + LANE_WIDTH \div 2)]
        ELSE t

(* turn *)
turn(self) ==
    LET t == [self EXCEPT !.has_turned = TRUE]
    IN  IF self.destination = Destination_BOTTOM
          THEN [t EXCEPT !.direction = Direction_BOTTOM, !.dx = 0, !.dy = 1,
                         !.x = Px(CENTER_X - LANE_WIDTH \div 2)]
        ELSE IF self.destination = Destination_LEFT
          THEN [t EXCEPT !.direction = Direction_LEFT, !.dx = -1, !.dy = 0,
                         !.y = Px(CENTER_Y - LANE_WIDTH \div 2)]
        ELSE IF self.destination = Destination_RIGHT
          THEN [t EXCEPT !.direction = Direction_RIGHT, !.dx = 1, !.dy = 0,
                         !.y = Px(CENTER_Y + LANE_WIDTH \div 2)]
        ELSE t

(* check_turn whose right-to-bottom threshold is on the far side of the    *)
(* centre (+ LANE_WIDTH // 2 in place of - LANE_WIDTH // 2)                *)
check_turn_late(self) ==
    IF self.has_turned \/ self.destination = self.direction THEN self
    ELSE IF self.direction = Direction_RIGHT /\ self.destination = Destination_BOTTOM
      THEN (IF self.x >= Px(CENTER_X + LANE_WIDTH \div 2) THEN turn(self) ELSE self)
    ELSE IF self.direction = Direction_LEFT /\ self.destination = Destination_BOTTOM
      THEN (IF self.x <= Px(CENTER_X + LANE_WIDTH \div 2) THEN turn(self) ELSE self)
    ELSE IF self.direction = Direction_BOTTOM
      THEN (IF self.y <= Px(CENTER_Y + LANE_WIDTH \div 2) THEN turn(self) ELSE self)
    ELSE self

(* check_turn *)
check_turn(self) ==
    IF self.has_turned \/ self.destination = self.direction THEN self
    ELSE IF self.direction = Direction_RIGHT /\ self.destination = Destination_BOTTOM
      THEN (IF self.x >= Px(CENTER_X - LANE_WIDTH \div 2) THEN turn(self) ELSE self)
    ELSE IF self.direction = Direction_LEFT /\ self.destination = Destination_BOTTOM
      THEN (IF self.x <= Px(CENTER_X + LANE_WIDTH \div 2) THEN turn(self) ELSE self)
    ELSE IF self.direction = Direction_BOTTOM
      THEN (IF self.y <= Px(CENTER_Y + LANE_WIDTH \div 2) THEN turn(self) ELSE self)
    ELSE self

(* get_distance_to_stop_target that tests has_turned instead of            *)
(* has_stopped_at_crossroad                                                *)
get_distance_wrongflag(self) ==
    IF self.has_turned THEN Px(1000)
    ELSE IF self.dx # 0 THEN Abs(STOP_POSITIONS(self.direction) - self.x)
    ELSE Abs(STOP_POSITIONS(self.direction) - self.y)

(* get_distance_to_stop_target without the has_stopped_at_crossroad return *)
get_distance_always(self) ==
    IF self.dx # 0 THEN Abs(STOP_POSITIONS(self.direction) - self.x)
    ELSE Abs(STOP_POSITIONS(self.direction) - self.y)

(* get_distance_to_stop_target, in position units *)
get_distance_to_stop_target(self) ==
    IF self.has_stopped_at_crossroad THEN Px(1000)
    ELSE IF self.dx # 0 THEN Abs(STOP_POSITIONS(self.direction) - self.x)
    ELSE Abs(STOP_POSITIONS(self.direction) - self.y)

(* stopping_distance_required >= distance_to_target (line 258):           *)
(*   (v/SpeedScale)^2 / (2*MAX_DECELERATION) >= d/PosScale                *)
(* which for the scales above is  v^2 >= 128 * d,  i.e. d <= v^2 div 128. *)
MustBrake(speed, distance) ==
    distance <= (speed * speed)
                   \div ((2 * MAX_DECELERATION * SpeedScale * SpeedScale) \div PosScale)

(* distance_to_target > stopping_distance_required * 1.5 (line 263):      *)
(*   d/PosScale > 3 * v^2 / (4 * MAX_DECELERATION * SpeedScale^2)         *)
HasRoom(speed, distance) ==
    distance > (3 * speed * speed)
                  \div ((4 * MAX_DECELERATION * SpeedScale * SpeedScale) \div PosScale)

(* min(MAX_DECELERATION * 2, speed ** 2 / (2 * distance_to_target)) / FPS *)
(* in speed units: the quotient is v^2 * PosScale / (2 * FPS * SpeedScale *)
(* * d) = 5 * v^2 / (16 * d), rounded to the nearest unit.                *)
extra_deceleration(speed, distance) ==
    Min((MAX_DECELERATION * 2 * SpeedScale) \div FPS,
        RoundDiv(5 * speed * speed, 16 * distance))

(* update_speed without its braking branch *)
update_speed_nobrake(self, distance_to_target) ==
    LET v == self.speed
        s1 == IF MustBrake(v, distance_to_target)
                THEN self
              ELSE IF v < self.max_speed /\ HasRoom(v, distance_to_target)
                THEN [self EXCEPT !.speed =
                        Min(self.max_speed, v + (ACCELERATION * SpeedScale) \div FPS)]
              ELSE self
    IN  IF distance_to_target < Px(1)
          THEN IF s1.stop_timer = 0
                 THEN [s1 EXCEPT !.stop_timer = STOP_TIME,
                                 !.has_stopped_at_crossroad = TRUE,
                                 !.speed = 0]
                 ELSE [s1 EXCEPT !.speed = 0]
          ELSE s1

(* update_speed that adds the braking decrement instead of subtracting it *)
update_speed_signslip(self, distance_to_target) ==
    LET v == self.speed
        s1 == IF MustBrake(v, distance_to_target)
                THEN [self EXCEPT !.speed =
                        Max(0, v + extra_deceleration(v, distance_to_target))]
              ELSE IF v < self.max_speed /\ HasRoom(v, distance_to_target)
                THEN [self EXCEPT !.speed =
                        Min(self.max_speed, v + (ACCELERATION * SpeedScale) \div FPS)]
              ELSE self
    IN  IF distance_to_target < Px(1)
          THEN IF s1.stop_timer = 0
                 THEN [s1 EXCEPT !.stop_timer = STOP_TIME,
                                 !.has_stopped_at_crossroad = TRUE,
                                 !.speed = 0]
                 ELSE [s1 EXCEPT !.speed = 0]
          ELSE s1

(* update_speed whose stop window is 1 position unit instead of 1 pixel *)
update_speed_window(self, distance_to_target) ==
    LET v == self.speed
        s1 == IF MustBrake(v, distance_to_target)
                THEN [self EXCEPT !.speed =
                        Max(0, v - extra_deceleration(v, distance_to_target))]
              ELSE IF v < self.max_speed /\ HasRoom(v, distance_to_target)
                THEN [self EXCEPT !.speed =
                        Min(self.max_speed, v + (ACCELERATION * SpeedScale) \div FPS)]
              ELSE self
    IN  IF distance_to_target < 1
          THEN IF s1.stop_timer = 0
                 THEN [s1 EXCEPT !.stop_timer = STOP_TIME,
                                 !.has_stopped_at_crossroad = TRUE,
                                 !.speed = 0]
                 ELSE [s1 EXCEPT !.speed = 0]
          ELSE s1

(* update_speed *)
update_speed(self, distance_to_target) ==
    LET v == self.speed
        s1 == IF MustBrake(v, distance_to_target)
                THEN [self EXCEPT !.speed =
                        Max(0, v - extra_deceleration(v, distance_to_target))]
              ELSE IF v < self.max_speed /\ HasRoom(v, distance_to_target)
                THEN [self EXCEPT !.speed =
                        Min(self.max_speed, v + (ACCELERATION * SpeedScale) \div FPS)]
              ELSE self
    IN  IF distance_to_target < Px(1)
          THEN IF s1.stop_timer = 0
                 THEN [s1 EXCEPT !.stop_timer = STOP_TIME,
                                 !.has_stopped_at_crossroad = TRUE,
                                 !.speed = 0]
                 ELSE [s1 EXCEPT !.speed = 0]
          ELSE s1

(* update_position: speed * PIXELS_PER_METER / FPS pixels is `speed' units *)
update_position(self) ==
    [self EXCEPT !.x = @ + self.dx * self.speed,
                 !.y = @ + self.dy * self.speed]

(* move without the early return of lines 170-171 *)
move_nohold(self, other_cars) ==
    LET s1 == IF self.has_stopped_at_crossroad /\ self.speed = 0
                THEN [self EXCEPT !.speed =
                        Min(self.max_speed, (ACCELERATION * SpeedScale) \div FPS)]
                ELSE self
        s2 == update_speed(s1, get_distance_to_stop_target(s1))
    IN  IF s2.stop_timer > 0
          THEN [s2 EXCEPT !.stop_timer = @ - 1]
          ELSE update_position(check_turn(s2))

(* move whose stop timer keeps counting while the car is held *)
move_counts_held(self, other_cars) ==
    IF /\ self.has_stopped_at_crossroad
       /\ ~can_proceed(self, other_cars)
       /\ ~self.has_turned
      THEN [self EXCEPT !.stop_timer = Max(0, @ - 1)]
    ELSE
      LET s1 == IF self.has_stopped_at_crossroad /\ self.speed = 0
                  THEN [self EXCEPT !.speed =
                          Min(self.max_speed, (ACCELERATION * SpeedScale) \div FPS)]
                  ELSE self
          s2 == update_speed(s1, get_distance_to_stop_target(s1))
      IN  IF s2.stop_timer > 0
            THEN [s2 EXCEPT !.stop_timer = @ - 1]
            ELSE update_position(check_turn(s2))

(* move *)
move(self, other_cars) ==
    IF /\ self.has_stopped_at_crossroad
       /\ ~can_proceed(self, other_cars)
       /\ ~self.has_turned
      THEN self
    ELSE
      LET s1 == IF self.has_stopped_at_crossroad /\ self.speed = 0
                  THEN [self EXCEPT !.speed =
                          Min(self.max_speed, (ACCELERATION * SpeedScale) \div FPS)]
                  ELSE self
          s2 == update_speed(s1, get_distance_to_stop_target(s1))
      IN  IF s2.stop_timer > 0
            THEN [s2 EXCEPT !.stop_timer = @ - 1]
            ELSE update_position(check_turn(s2))

----------------------------------------------------------------------------
(* class Simulation *)

(* Bounds of the model.  MaxCars bounds the number of cars a Simulation      *)
(* ever creates; Beyond is how many pixels outside the visible world a car  *)
(* may be before the run is cut off (the program never removes a car).      *)
MaxCars == 4
Beyond == 2

VARIABLES cars, car_counter, pc, silent, ego, verdict, calls, replay

vars == <<cars, car_counter, pc, silent, ego, verdict, calls, replay>>

(* spawn_cars: directions and max_cars_per_direction *)
directions == <<Direction_RIGHT, Direction_LEFT>>
max_cars_per_direction == 2

(* sum(1 for car in self.cars if car.direction == direction) *)
car_counts(cs, direction) ==
    Cardinality({i \in 1..Len(cs) : cs[i].direction = direction})

(* can_spawn with the clearance left out of the comparison *)
can_spawn_noclearance(cs, direction) ==
    \A i \in 1..Len(cs) :
        cs[i].direction = direction =>
            IF direction = Direction_RIGHT
              THEN cs[i].x > Px(0 - CAR_WIDTH)
            ELSE IF direction = Direction_LEFT
              THEN cs[i].x < Px(WIDTH + CAR_WIDTH)
            ELSE IF direction = Direction_TOP
              THEN cs[i].y > Px(0 - CAR_HEIGHT)
            ELSE cs[i].y < Px(HEIGHT + CAR_HEIGHT)

(* can_spawn.  Positions are exact here.  A car cruising from its spawn   *)
(* point is, after 75 frames, exactly SPAWN_CLEARANCE from the edge; the   *)
(* program's floats have by then drifted to 55.000000000000064 (RIGHT) and *)
(* 744.999999999996 (LEFT), so its comparison already succeeds on that     *)
(* frame and the exact one on the next: a follower is created one frame    *)
(* later here than in the program.                                         *)
can_spawn(cs, direction) ==
    \A i \in 1..Len(cs) :
        cs[i].direction = direction =>
            IF direction = Direction_RIGHT
              THEN cs[i].x > Px(0 - CAR_WIDTH) + SPAWN_CLEARANCE
            ELSE IF direction = Direction_LEFT
              THEN cs[i].x < Px(WIDTH + CAR_WIDTH) - SPAWN_CLEARANCE
            ELSE IF direction = Direction_TOP
              THEN cs[i].y > Px(0 - CAR_HEIGHT) + SPAWN_CLEARANCE
            ELSE cs[i].y < Px(HEIGHT + CAR_HEIGHT) - SPAWN_CLEARANCE

(* line 330 with <= in place of < *)
MaySpawn_offbyone(before, cs, direction) ==
    /\ car_counts(before, direction) <= max_cars_per_direction
    /\ can_spawn(cs, direction)

(* the condition of line 330; counts are those taken before the loop *)
MaySpawn(before, cs, direction) ==
    /\ car_counts(before, direction) < max_cars_per_direction
    /\ can_spawn(cs, direction)

(* One iteration of the loop of spawn_cars on state st = [cars, counter,   *)
(* silent].  draw is the outcome of random.random() < spawn_probability,   *)
(* taken only when line 330 lets it be taken.  A draw can succeed only     *)
(* while the direction is not silent and the list holds fewer than MaxCars  *)
(* cars; a direction whose draw failed becomes silent.                      *)
SpawnStep(before, st, direction, draw, destination, max_speed) ==
    IF ~MaySpawn(before, st.cars, direction) THEN st
    ELSE IF draw /\ direction \notin st.silent /\ Len(st.cars) < MaxCars
      THEN [st EXCEPT !.cars = Append(@, NewCar(st.counter, direction,
                                                 destination, max_speed)),
                      !.counter = @ + 1]
    ELSE [st EXCEPT !.silent = @ \cup {direction}]

(* spawn_cars *)
SpawnCars ==
    /\ pc = "spawn"
    /\ \E drawR \in BOOLEAN, drawL \in BOOLEAN,
          destR \in assign_destination(Direction_RIGHT),
          destL \in assign_destination(Direction_LEFT),
          ms \in MAX_SPEEDS :
         LET st0 == [cars |-> cars, counter |-> car_counter, silent |-> silent]
             st1 == SpawnStep(cars, st0, directions[1], drawR, destR, ms)
             st2 == SpawnStep(cars, st1, directions[2], drawL, destL, ms)
         IN  /\ cars' = st2.cars
             /\ car_counter' = st2.counter
             /\ silent' = st2.silent
    /\ pc' = "move"
    /\ UNCHANGED <<ego, verdict, calls, replay>>

(* for car in self.cars: car.move(self.cars) -- in place, in list order *)
RECURSIVE MoveFrom(_, _)
MoveFrom(cs, i) ==
    IF i > Len(cs) THEN cs
    ELSE MoveFrom([cs EXCEPT ![i] = move(cs[i], cs)], i + 1)

InSight(car) ==
    /\ car.x >= Px(0 - Beyond)
    /\ car.x <= Px(WIDTH + Beyond)
    /\ car.y <= Px(HEIGHT + Beyond)

MoveCars ==
    /\ pc = "move"
    /\ \A i \in 1..Len(cars) : InSight(cars[i]) \/ ~cars[i].has_stopped_at_crossroad
    /\ cars' = MoveFrom(cars, 1)
    /\ pc' = "spawn"
    /\ UNCHANGED <<car_counter, silent, ego, verdict, calls, replay>>

NoCar == [id |-> 0]

Init ==
    /\ cars = <<>>
    /\ car_counter = 1
    /\ pc = "spawn"
    /\ silent = {}
    /\ ego = NoCar
    /\ verdict = "none"
    /\ calls = 0
    /\ replay = <<>>

Next == SpawnCars \/ MoveCars

Spec == Init /\ [][Next]_vars

----------------------------------------------------------------------------
(* Replay: two Simulation objects in one interpreter, stepped frame by      *)
(* frame and fed the same random draws.  `cars' is the list of the first,   *)
(* `replay' the list of the second; Car.car_counter is a class attribute    *)
(* and is shared by both.                                                   *)

ReplaySpawn ==
    /\ pc = "spawn"
    /\ \E drawR \in BOOLEAN, drawL \in BOOLEAN,
          destR \in assign_destination(Direction_RIGHT),
          destL \in assign_destination(Direction_LEFT),
          ms \in MAX_SPEEDS :
         LET a0 == [cars |-> cars, counter |-> car_counter, silent |-> silent]
             a1 == SpawnStep(cars, a0, directions[1], drawR, destR, ms)
             a2 == SpawnStep(cars, a1, directions[2], drawL, destL, ms)
             b0 == [cars |-> replay, counter |-> a2.counter, silent |-> silent]
             b1 == SpawnStep(replay, b0, directions[1], drawR, destR, ms)
             b2 == SpawnStep(replay, b1, directions[2], drawL, destL, ms)
         IN  /\ cars' = a2.cars
             /\ replay' = b2.cars
             /\ car_counter' = b2.counter
             /\ silent' = a2.silent
    /\ pc' = "move"
    /\ UNCHANGED <<ego, verdict, calls>>

ReplayMove ==
    /\ pc = "move"
    /\ \A i \in 1..Len(cars) : InSight(cars[i]) \/ ~cars[i].has_stopped_at_crossroad
    /\ cars' = MoveFrom(cars, 1)
    /\ replay' = MoveFrom(replay, 1)
    /\ pc' = "spawn"
    /\ UNCHANGED <<car_counter, silent, ego, verdict, calls>>

ReplayNext == ReplaySpawn \/ ReplayMove

Replay == Init /\ [][ReplayNext]_vars

----------------------------------------------------------------------------
(* Direct calls of Car.can_proceed and Car.move, as a unit test makes them: *)
(* a car `ego' built by hand, a hand-built list `cars' passed as            *)
(* other_cars.  This is where the conflict rows of can_proceed, which the   *)
(* wired simulation never reaches, are exercised.                           *)

(* Bounds: cars in other_cars, and calls of move per run *)
MaxOthers == 2
MaxCalls == 3

(* positions of the other cars, by direction: on either side of the centre *)
(* line the rules of can_proceed test, and one point outside              *)
(* CROSSROAD_RANGE on both axes                                            *)
FarAway == <<Px(CENTER_X) + CROSSROAD_RANGE + 1, Px(CENTER_Y) + CROSSROAD_RANGE + 1>>

OtherPositions(direction) ==
    CASE direction = Direction_RIGHT ->
           << <<Px(CENTER_X - 1), Px(CENTER_Y + LANE_WIDTH \div 2)>>,
              <<Px(CENTER_X),     Px(CENTER_Y + LANE_WIDTH \div 2)>>,
              FarAway >>
      [] direction = Direction_LEFT ->
           << <<Px(CENTER_X),     Px(CENTER_Y - LANE_WIDTH \div 2)>>,
              <<Px(CENTER_X + 1), Px(CENTER_Y - LANE_WIDTH \div 2)>>,
              FarAway >>
      [] direction = Direction_BOTTOM ->
           << <<Px(CENTER_X - LANE_WIDTH \div 2), Px(CENTER_Y - 1)>>,
              <<Px(CENTER_X - LANE_WIDTH \div 2), Px(CENTER_Y)>>,
              FarAway >>

OtherDirections == <<Direction_RIGHT, Direction_LEFT, Direction_BOTTOM>>
OtherDestinations == <<Destination_LEFT, Destination_RIGHT, Destination_BOTTOM>>

NumOthers == 3 * Len(OtherDirections) * Len(OtherDestinations)

(* the t-th hand-built other car, t in 0..NumOthers-1 *)
OtherAt(t) ==
    LET u == t \div 3
        dir == OtherDirections[(u % Len(OtherDirections)) + 1]
        dest == OtherDestinations[(u \div Len(OtherDirections)) + 1]
        pos == OtherPositions(dir)[(t % 3) + 1]
    IN  [NewCar(0, dir, dest, 20 * SpeedScale) EXCEPT !.x = pos[1], !.y = pos[2]]

OtherLists ==
    UNION {{[i \in 1..n |-> OtherAt(f[i])] :
              f \in {g \in [1..n -> 0..(NumOthers - 1)] :
                        \A i \in 1..(n - 1) : g[i] <= g[i + 1]}} :
           n \in 0..MaxOthers}

(* where a car of the given direction is 7/10 pixel short of its stop line *)
AtLine(c) ==
    LET short == (7 * PosScale) \div 10
        line == STOP_POSITIONS(c.direction)
    IN  IF c.dx # 0 THEN [c EXCEPT !.x = line - c.dx * short]
        ELSE [c EXCEPT !.y = line - c.dy * short]

(* the stages of a car's life the ego is taken from *)
Lives == {"spawned", "arriving", "dwelling", "lastframe", "released"}

EgoOf(direction, destination, life) ==
    LET c == NewCar(0, direction, destination, 20 * SpeedScale)
        stopped == [AtLine(c) EXCEPT !.has_stopped_at_crossroad = TRUE]
    IN  CASE life = "spawned"   -> c
          [] life = "arriving"  -> [AtLine(c) EXCEPT !.speed = 7 * SpeedScale]
          [] life = "dwelling"  -> [stopped EXCEPT !.speed = 0,
                                                   !.stop_timer = STOP_TIME - 1]
          [] life = "lastframe" -> [stopped EXCEPT !.speed = 4 * SpeedScale - 40,
                                                   !.stop_timer = 1]
          [] life = "released"  -> [stopped EXCEPT !.speed = 4 * SpeedScale,
                                                   !.stop_timer = 0]

(* Car(Direction.TOP) gets no position and no heading from                  *)
(* set_initial_position: it can answer can_proceed but cannot move          *)
TopEgo(destination) ==
    [id |-> 0, direction |-> Direction_TOP, destination |-> destination,
     max_speed |-> 20 * SpeedScale, speed |-> 20 * SpeedScale, stop_timer |-> 0,
     has_stopped_at_crossroad |-> FALSE, has_turned |-> FALSE,
     x |-> 0, y |-> 0, dx |-> 0, dy |-> 0]

Egos ==
    {EgoOf(d, t, l) : d \in Direction \ {Direction_TOP},
                      t \in Destination \cup {"None"}, l \in Lives}
    \cup {TopEgo(t) : t \in Destination}

HarnessInit ==
    /\ cars \in OtherLists
    /\ ego \in Egos
    /\ car_counter = 1
    /\ pc = "harness"
    /\ silent = {}
    /\ verdict = "none"
    /\ calls = 0
    /\ replay = <<>>

(* ego.can_proceed(cars) *)
CanProceedCall ==
    /\ pc = "harness"
    /\ verdict = "none"
    /\ verdict' = IF can_proceed(ego, cars) THEN "yes" ELSE "no"
    /\ UNCHANGED <<cars, car_counter, pc, silent, ego, calls, replay>>

(* ego.move(cars) *)
MoveCall ==
    /\ pc = "harness"
    /\ calls < MaxCalls
    /\ ego.direction # Direction_TOP
    /\ ego' = move(ego, cars)
    /\ calls' = calls + 1
    /\ verdict' = "none"
    /\ UNCHANGED <<cars, car_counter, pc, silent, replay>>

HarnessNext == CanProceedCall \/ MoveCall

Harness == HarnessInit /\ [][HarnessNext]_vars

----------------------------------------------------------------------------
(* Properties *)

IsRow(car, direction, destination) ==
    car.direction = direction /\ car.destination = destination

(* the step is a call ego.move(cars) *)
MoveCalled == calls' = calls + 1

(* the early return of move: the car is held by the right-of-way check *)
Held(car, other_cars) ==
    /\ car.has_stopped_at_crossroad
    /\ ~can_proceed(car, other_cars)
    /\ ~car.has_turned

(* C1: in every reachable state of the simulation every vehicle has       *)
(* 0 <= speed <= max_speed.                                                *)
C1_SpeedBound ==
    \A i \in 1..Len(cars) :
        cars[i].speed >= 0 /\ cars[i].speed <= cars[i].max_speed

(* a car after the frame that kick-started it from rest *)
C1_Witness ==
    \E i \in 1..Len(cars) :
        /\ cars[i].has_stopped_at_crossroad
        /\ cars[i].stop_timer = STOP_TIME - 2
        /\ cars[i].speed > 0

(* C2: a call of move on a vehicle that has registered its stop, has not   *)
(* turned and is refused by can_proceed leaves its position unchanged.     *)
C2_HeldInPlace ==
    [][(MoveCalled /\ ego.has_stopped_at_crossroad /\ ~ego.has_turned
          /\ ~can_proceed(ego, cars))
        => (ego'.x = ego.x /\ ego'.y = ego.y)]_vars

(* a released car (dwell over, moving speed) refused twice in a row *)
C2_Witness ==
    /\ calls >= 2
    /\ ego.has_stopped_at_crossroad /\ ~ego.has_turned
    /\ ego.stop_timer = 0 /\ ego.speed > 0
    /\ ~can_proceed(ego, cars)

(* C3: the number of vehicles whose direction is RIGHT, and the number     *)
(* whose direction is LEFT, never exceeds max_cars_per_direction.          *)
C3_ApproachCap ==
    \A k \in 1..Len(directions) :
        car_counts(cars, directions[k]) <= max_cars_per_direction

(* two cars on RIGHT, the spawn edge clear: only the cap refuses a third *)
C3_Witness ==
    /\ pc = "spawn"
    /\ car_counts(cars, Direction_RIGHT) = max_cars_per_direction
    /\ can_spawn(cars, Direction_RIGHT)

DirectionNamed(destination) ==
    CASE destination = Destination_LEFT   -> Direction_LEFT
      [] destination = Destination_RIGHT  -> Direction_RIGHT
      [] destination = Destination_BOTTOM -> Direction_BOTTOM
      [] OTHER -> "None"

(* C4: has_turned never returns to false; on the step it becomes true the  *)
(* direction is the one named by the destination; once it is true neither  *)
(* direction nor heading (dx, dy) changes.                                 *)
C4_SingleTurn ==
    [][\A i \in 1..Len(cars) :
          /\ cars[i].has_turned =>
                /\ cars'[i].has_turned
                /\ cars'[i].direction = cars[i].direction
                /\ cars'[i].dx = cars[i].dx
                /\ cars'[i].dy = cars[i].dy
          /\ (~cars[i].has_turned /\ cars'[i].has_turned) =>
                cars'[i].direction = DirectionNamed(cars[i].destination)]_vars

(* a car that turned and has since driven down the bottom road *)
C4_Witness ==
    \E i \in 1..Len(cars) :
        /\ cars[i].has_turned
        /\ cars[i].direction = Direction_BOTTOM
        /\ cars[i].y > Px(CENTER_Y + ROAD_WIDTH)

(* C5: for a left-to-left ego, can_proceed is false iff some vehicle in    *)
(* the crossroad range has direction BOTTOM, destination RIGHT and         *)
(* y >= CENTER_Y.                                                          *)
C5_LeftLeftRule ==
    (verdict # "none" /\ IsRow(ego, Direction_LEFT, Destination_LEFT)) =>
        (verdict = "no" <=>
            \E i \in 1..Len(cars) :
                /\ InCrossroad(cars[i])
                /\ IsRow(cars[i], Direction_BOTTOM, Destination_RIGHT)
                /\ cars[i].y >= Px(CENTER_Y))

(* C6: for a right-to-bottom ego, can_proceed is false iff some vehicle in *)
(* the crossroad range has direction LEFT, destination LEFT and            *)
(* x <= CENTER_X.                                                          *)
C6_RightBottomRule ==
    (verdict # "none" /\ IsRow(ego, Direction_RIGHT, Destination_BOTTOM)) =>
        (verdict = "no" <=>
            \E i \in 1..Len(cars) :
                /\ InCrossroad(cars[i])
                /\ IsRow(cars[i], Direction_LEFT, Destination_LEFT)
                /\ cars[i].x <= Px(CENTER_X))

FreeRow(car) ==
    \/ IsRow(car, Direction_RIGHT, Destination_RIGHT)
    \/ IsRow(car, Direction_LEFT, Destination_BOTTOM)
    \/ IsRow(car, Direction_BOTTOM, Destination_RIGHT)

TableRow(car) ==
    \/ FreeRow(car)
    \/ IsRow(car, Direction_LEFT, Destination_LEFT)
    \/ IsRow(car, Direction_RIGHT, Destination_BOTTOM)
    \/ IsRow(car, Direction_BOTTOM, Destination_LEFT)

(* C7: for a right-to-right, left-to-bottom or bottom-to-right ego,        *)
(* can_proceed returns true whatever the other vehicles are.               *)
C7_FreeRows ==
    (verdict # "none" /\ FreeRow(ego)) => verdict = "yes"

(* a free-row ego let through although cars of every conflicting stream of *)
(* the table are in the crossroad range                                    *)
C7_Witness ==
    /\ verdict = "yes" /\ FreeRow(ego)
    /\ \E i \in 1..Len(cars) :
          /\ IsRow(cars[i], Direction_RIGHT, Destination_BOTTOM)
          /\ cars[i].x >= Px(CENTER_X)
    /\ \E i \in 1..Len(cars) :
          /\ IsRow(cars[i], Direction_BOTTOM, Destination_RIGHT)
          /\ cars[i].y >= Px(CENTER_Y)

(* C8: for an ego whose (direction, destination) is not a row of the       *)
(* right-of-way table, can_proceed returns false.                          *)
C8_DefaultBlocked ==
    (verdict # "none" /\ ~TableRow(ego)) => verdict = "no"

(* a single car, right to right, no other car created so far *)
LoneRightRight ==
    /\ Len(cars) = 1
    /\ IsRow(cars[1], Direction_RIGHT, Destination_RIGHT)

(* C9 as stated: a lone right-to-right vehicle never has speed 0, never    *)
(* starts its stop timer and never sets has_stopped_at_crossroad.          *)
C9_NeverStops ==
    LoneRightRight =>
        /\ cars[1].speed > 0
        /\ cars[1].stop_timer = 0
        /\ ~cars[1].has_stopped_at_crossroad

(* C9 amended: a lone right-to-right vehicle is never refused by           *)
(* can_proceed, and its speed is 0 only in the state left by the frame on  *)
(* which it registered its stop at the stop line.                          *)
C9_StopsOnceNeverHeld ==
    LoneRightRight =>
        /\ can_proceed(cars[1], cars)
        /\ cars[1].speed = 0 =>
              /\ cars[1].has_stopped_at_crossroad
              /\ cars[1].stop_timer = STOP_TIME - 1
        /\ cars[1].stop_timer > 0 => cars[1].has_stopped_at_crossroad

(* the lone car has stopped, waited, and left the world on the right *)
C9_Witness ==
    /\ LoneRightRight
    /\ cars[1].has_stopped_at_crossroad
    /\ cars[1].stop_timer = 0
    /\ cars[1].x > Px(WIDTH)

(* C10 as stated: while stop_timer > 0 every call of move decreases it by  *)
(* exactly 1, also when can_proceed returns false.                         *)
C10_AlwaysCounts ==
    [][(MoveCalled /\ ego.stop_timer > 0)
        => ego'.stop_timer = ego.stop_timer - 1]_vars

(* C10 amended: while stop_timer > 0 a call of move decreases it by        *)
(* exactly 1 unless the car is held by the right-of-way check, and then    *)
(* leaves it unchanged.                                                    *)
C10_CountsUnlessHeld ==
    [][(MoveCalled /\ ego.stop_timer > 0)
        => ego'.stop_timer = IF Held(ego, cars) THEN ego.stop_timer
                             ELSE ego.stop_timer - 1]_vars

(* a dwelling car that was held on one call and counted down on none *)
C10_Witness ==
    /\ calls >= 1
    /\ ego.stop_timer = STOP_TIME - 1
    /\ Held(ego, cars)

(* C11: a vehicle that has stopped at its stop line is fully halted for    *)
(* the whole dwell: its speed is 0 in every state in which its stop_timer  *)
(* is greater than 0 (so the speed is first raised from 0 only once the    *)
(* timer is 0).                                                            *)
C11_HaltedWhileDwelling ==
    \A i \in 1..Len(cars) :
        cars[i].stop_timer > 0 => cars[i].speed = 0

(* C12: has_stopped_at_crossroad, once true, stays true (also across a     *)
(* turn), and stop_timer is started at most once per vehicle: it rises     *)
(* only on the step on which has_stopped_at_crossroad becomes true, and is *)
(* 0 for a vehicle that has not stopped yet.                               *)
C12_StopsOnce ==
    [][\A i \in 1..Len(cars) :
          /\ cars[i].has_stopped_at_crossroad => cars'[i].has_stopped_at_crossroad
          /\ cars'[i].stop_timer > cars[i].stop_timer =>
                /\ ~cars[i].has_stopped_at_crossroad
                /\ cars'[i].has_stopped_at_crossroad
                /\ cars[i].stop_timer = 0
                /\ cars'[i].stop_timer <= STOP_TIME]_vars

(* a car that stopped, finished its dwell, turned and drove on *)
C12_Witness ==
    \E i \in 1..Len(cars) :
        /\ cars[i].has_stopped_at_crossroad
        /\ cars[i].has_turned
        /\ cars[i].stop_timer = 0
        /\ cars[i].y > Px(CENTER_Y + LANE_WIDTH)

(* required braking distance >= remaining distance to the stop target, in *)
(* the units of the model: (v/SpeedScale)^2 / (2*MAX_DECELERATION) >=      *)
(* d/PosScale                                                              *)
BrakingDue(car) ==
    car.speed * car.speed >=
        ((2 * MAX_DECELERATION * SpeedScale * SpeedScale) \div PosScale)
            * get_distance_to_stop_target(car)

(* C13: on every frame on which a vehicle's required braking distance is   *)
(* at least its remaining distance to the stop target, its speed after the *)
(* frame is strictly smaller than before, or stays 0.                      *)
C13_BrakingDecreases ==
    [][pc = "move" =>
         \A i \in 1..Len(cars) :
            BrakingDue(cars[i]) =>
               \/ cars'[i].speed < cars[i].speed
               \/ (cars[i].speed = 0 /\ cars'[i].speed = 0)]_vars

(* a car in the middle of its braking: slowed down, not yet stopped, and   *)
(* braking again on the next frame                                         *)
C13_Witness ==
    \E i \in 1..Len(cars) :
        /\ pc = "move"
        /\ ~cars[i].has_stopped_at_crossroad
        /\ cars[i].speed < cars[i].max_speed
        /\ BrakingDue(cars[i])

(* the cars as they are when car i is moved in place: cars 1..i-1 have     *)
(* already moved                                                           *)
RECURSIVE MovedBefore(_, _)
MovedBefore(cs, i) ==
    IF i <= 1 THEN cs
    ELSE LET prev == MovedBefore(cs, i - 1)
         IN  [prev EXCEPT ![i - 1] = move(prev[i - 1], prev)]

(* every car moved against the positions held at the start of the frame *)
MoveSnapshot(cs) == [i \in 1..Len(cs) |-> move(cs[i], cs)]

(* C14: in every reachable state of the simulation, moving the cars one    *)
(* after another in place gives every car the same right-of-way decision   *)
(* and the same next state as moving each against the positions at the     *)
(* start of the frame.                                                     *)
C14_InPlaceIsSnapshot ==
    [][pc = "move" =>
         /\ cars' = MoveSnapshot(cars)
         /\ \A i \in 1..Len(cars) :
               can_proceed(cars[i], MovedBefore(cars, i))
                  = can_proceed(cars[i], cars)]_vars

(* a left-to-left car that has stopped and is asked for right of way after *)
(* a right-to-bottom car, earlier in the list, has moved inside the        *)
(* junction on the same frame                                              *)
C14_Witness ==
    \E i \in 1..Len(cars), j \in 1..Len(cars) :
        /\ pc = "move"
        /\ i < j
        /\ IsRow(cars[i], Direction_RIGHT, Destination_BOTTOM)
        /\ cars[i].x > STOP_POSITIONS(Direction_RIGHT) + Px(1)
        /\ MovedBefore(cars, j)[i].x > cars[i].x
        /\ IsRow(cars[j], Direction_LEFT, Destination_LEFT)
        /\ cars[j].has_stopped_at_crossroad

(* what the renderer reads of each car: identifier, position, direction,   *)
(* speed and destination                                                   *)
Observable(cs) ==
    [i \in 1..Len(cs) |->
        <<cs[i].id, cs[i].x, cs[i].y, cs[i].direction, cs[i].speed,
          cs[i].destination>>]

(* C15: two runs of the simulation that receive the same random draws      *)
(* show, frame by frame, the same identifier, position, direction, speed   *)
(* and destination for every vehicle.                                      *)
C15_SameTrajectories ==
    Observable(cars) = Observable(replay)

(* how far a car is from the edge where direction d spawns its cars       *)
(* (set_initial_position: x = -CAR_WIDTH for RIGHT, WIDTH + CAR_WIDTH for *)
(* LEFT)                                                                  *)
FromSpawnEdge(car, d) ==
    IF d = Direction_RIGHT THEN car.x - Px(0 - CAR_WIDTH)
    ELSE Px(WIDTH + CAR_WIDTH) - car.x

(* every car of direction d is farther than SPAWN_CLEARANCE from d's edge *)
EdgeClear(cs, d) ==
    \A i \in 1..Len(cs) :
        cs[i].direction = d => FromSpawnEdge(cs[i], d) > SPAWN_CLEARANCE

(* the spawn pass adds a car of direction d *)
SpawnsOn(d) ==
    /\ SpawnCars
    /\ \E k \in (Len(cars) + 1)..Len(cars') : cars'[k].direction = d

(* C16: a spawn pass leaves the existing cars as they are and adds a car   *)
(* of direction d only if every existing car of direction d is farther     *)
(* than SPAWN_CLEARANCE from d's spawn edge; when the clearance fails no   *)
(* car is added on d; and whenever the clearance holds and fewer than      *)
(* max_cars_per_direction cars have direction d, a spawn on d is possible  *)
(* (for as long as the model lets d draw at all).                          *)
C16_SpawnClearance ==
    [][pc = "spawn" =>
         /\ Len(cars') >= Len(cars)
         /\ SubSeq(cars', 1, Len(cars)) = cars
         /\ \A d \in {Direction_RIGHT, Direction_LEFT} :
               /\ (\E k \in (Len(cars) + 1)..Len(cars') :
                      cars'[k].direction = d) => EdgeClear(cars, d)
               /\ ~EdgeClear(cars, d) =>
                     car_counts(cars', d) = car_counts(cars, d)
               /\ ( /\ EdgeClear(cars, d)
                    /\ car_counts(cars, d) < max_cars_per_direction
                    /\ d \notin silent
                    /\ Len(cars) < MaxCars ) => ENABLED SpawnsOn(d)]_vars

(* a second car has just been added on an approach whose first car, within *)
(* the clearance on every earlier frame, is now beyond it                  *)
C16_Witness ==
    \E i \in 1..Len(cars), j \in 1..Len(cars) :
        /\ pc = "move"
        /\ i < j
        /\ cars[i].direction = cars[j].direction
        /\ ~cars[i].has_turned
        /\ FromSpawnEdge(cars[j], cars[j].direction) = 0
        /\ FromSpawnEdge(cars[i], cars[i].direction) > SPAWN_CLEARANCE
        /\ FromSpawnEdge(cars[i], cars[i].direction) - cars[i].speed
              <= SPAWN_CLEARANCE

(* how far a car is beyond its stop line along its axis of travel          *)
(* (negative on the approach side)                                         *)
PastLine(car) ==
    IF car.dx # 0 THEN car.dx * (car.x - STOP_POSITIONS(car.direction))
    ELSE car.dy * (car.y - STOP_POSITIONS(car.direction))

(* C17: in every reachable state a car that has not yet stopped at the     *)
(* crossroad is less than 1 pixel beyond its stop line: no car gets past   *)
(* the line without its stop having been registered.                       *)
C17_NoPassWithoutStop ==
    \A i \in 1..Len(cars) :
        ~cars[i].has_stopped_at_crossroad => PastLine(cars[i]) < Px(1)

(* a car whose stop has just been registered, standing within 1 pixel of   *)
(* its stop line                                                           *)
C17_Witness ==
    \E i \in 1..Len(cars) :
        /\ cars[i].has_stopped_at_crossroad
        /\ cars[i].stop_timer = STOP_TIME - 1
        /\ ~cars[i].has_turned
        /\ Abs(PastLine(cars[i])) < Px(1)

(* C18: in the simulation no car that has not yet turned is ever refused   *)
(* right of way, and every car that stops at its stop line moves again     *)
(* exactly STOP_TIME frames after the frame on which it stopped: the frame *)
(* that registers the stop leaves the car in place with STOP_TIME - 1      *)
(* frames to wait, every frame with a wait of k > 0 leaves it in place     *)
(* with k - 1, and the frame that finds a stopped car with no wait left    *)
(* moves it.                                                               *)
C18_ResumesAfterStopTime ==
    [][/\ \A i \in 1..Len(cars) :
             ~cars[i].has_turned => can_proceed(cars[i], cars)
       /\ pc = "move" =>
             \A i \in 1..Len(cars) :
                /\ ~cars[i].has_turned =>
                      can_proceed(cars[i], MovedBefore(cars, i))
                /\ ( /\ ~cars[i].has_stopped_at_crossroad
                     /\ cars'[i].has_stopped_at_crossroad ) =>
                      /\ cars'[i].stop_timer = STOP_TIME - 1
                      /\ cars'[i].x = cars[i].x /\ cars'[i].y = cars[i].y
                /\ cars[i].stop_timer > 0 =>
                      /\ cars'[i].stop_timer = cars[i].stop_timer - 1
                      /\ cars'[i].x = cars[i].x /\ cars'[i].y = cars[i].y
                /\ ( /\ cars[i].has_stopped_at_crossroad
                     /\ cars[i].stop_timer = 0 ) =>
                      \/ cars'[i].x # cars[i].x
                      \/ cars'[i].y # cars[i].y]_vars

(* a car that has waited out its stop and is about to leave the stop line  *)
(* while a car of the other approach is inside the crossroad range         *)
C18_Witness ==
    \E i \in 1..Len(cars), j \in 1..Len(cars) :
        /\ pc = "move"
        /\ cars[i].has_stopped_at_crossroad
        /\ cars[i].stop_timer = 0
        /\ ~cars[i].has_turned
        /\ Abs(PastLine(cars[i])) < Px(1)
        /\ cars[j].direction # cars[i].direction
        /\ InCrossroad(cars[j])

(* two cars travel in the same direction in the same lane *)
SameLane(a, b) ==
    /\ a.direction = b.direction
    /\ a.dx = b.dx /\ a.dy = b.dy
    /\ IF a.dx # 0 THEN a.y = b.y ELSE a.x = b.x

(* the distance between two cars along their axis of travel *)
GapAlong(a, b) ==
    IF a.dx # 0 THEN Abs(a.x - b.x) ELSE Abs(a.y - b.y)

(* C19: in every reachable state two distinct cars travelling in the same  *)
(* direction in the same lane are at least MIN_DISTANCE apart along their  *)
(* axis of travel.                                                         *)
C19_FollowingGap ==
    \A i \in 1..Len(cars), j \in 1..Len(cars) :
        (i # j /\ SameLane(cars[i], cars[j])) =>
            GapAlong(cars[i], cars[j]) >= MIN_DISTANCE

(* the rectangle draw_car blits for the car, with its corner at            *)
(* (x, y - CAR_HEIGHT // 2), lies wholly outside the WIDTH x HEIGHT window *)
(* on the side the car is heading for                                      *)
LeftWorld(car) ==
    \/ car.dx = 1 /\ car.x >= Px(WIDTH)
    \/ car.dx = -1 /\ car.x + Px(CAR_WIDTH) <= 0
    \/ car.dy = 1 /\ car.y - Px(CAR_HEIGHT \div 2) >= Px(HEIGHT)

(* C20: a car that has left the visible world is removed: no car of the    *)
(* simulation's list, which is what the cap of an approach counts, has     *)
(* left it.                                                                *)
C20_ExitedRemoved ==
    \A i \in 1..Len(cars) : ~LeftWorld(cars[i])

====
